---- MODULE Spec2Model ----
(***************************************************************************)
(* stackedSeriesGapFix.js, version 1.1.0: fixSeries(series) expands the    *)
(* gaps (points with y === null) of a list of Highcharts series by         *)
(* splicing 'gapfix' points next to every gap, in every series.            *)
(*                                                                         *)
(* Array indices are the 0-based indices of the JavaScript source; the     *)
(* point at JavaScript index i of an array is element i+1 of the sequence. *)
(* One call of fixSeries is cut at its loop iterations: one step per       *)
(* scanned series, one for the sort, one per (series, gap) of the rewrite  *)
(* pass, one per finished series and one for the return.  A TypeError      *)
(* ends the call at once and leaves the arrays as they are at that moment. *)
(***************************************************************************)
EXTENDS Integers, Sequences, FiniteSets, TLC

(* ---------------------------- bounds of the model ---------------------- *)
MaxSeries == 2
MaxLen == 4
MaxCalls == 2

\* spacings of the (uniform) x grid of an input: equal to, between one and
\* two times, and more than two times the fix distance
XSteps == {1000, 1500, 3000}

(* ---------------------------- values ----------------------------------- *)
\* the JavaScript value null of a point's y
Null == -1
\* series[i].id of a series object that has no id property (undefined)
NoId == -1
\* var fixTimeDistance = 1000;
fixTimeDistance == 1000

\* the result of getPrev / getNext: null, a point {x, y}, or a TypeError
NullRes == [kind |-> "null", x |-> 0, y |-> Null]
ThrowRes == [kind |-> "throw", x |-> 0, y |-> Null]
PointRes(p) == [kind |-> "point", x |-> p.x, y |-> p.y]

\* data[i] of a JavaScript array: undefined outside 0 .. length-1
Defined(data, i) == i >= 0 /\ i < Len(data)
At(data, i) == data[i + 1]

(* ---------------------------- helpers of the source -------------------- *)
RECURSIVE getPrev(_, _)
getPrev(data, index) ==
    IF index >= 0
    THEN LET i == index - 1 IN
         IF ~Defined(data, i) THEN ThrowRes            \* prev.type of undefined
         ELSE IF At(data, i).type = "gap" THEN NullRes
         ELSE IF At(data, i).y # Null THEN PointRes(At(data, i))
         ELSE getPrev(data, i)
    ELSE NullRes

RECURSIVE getNext(_, _)
getNext(data, index) ==
    IF index < Len(data) - 1
    THEN LET i == index + 1 IN
         IF ~Defined(data, i) THEN ThrowRes            \* next.type of undefined
         ELSE IF At(data, i).type = "gap" THEN NullRes
         ELSE IF At(data, i).y # Null THEN PointRes(At(data, i))
         ELSE getNext(data, i)
    ELSE NullRes

createGapFixPoint(x, y) ==
    [x |-> x, y |-> y, type |-> "gapfix", marker |-> "disabled"]

\* data.splice(index, 0, p)
Splice(data, index, p) ==
    SubSeq(data, 1, index) \o <<p>> \o SubSeq(data, index + 1, Len(data))

\* insertGapFix as data.splice(index, 1, gapfix): the point at index is lost
insertGapFixReplacing(data, index, gapfix) ==
    IF At(data, index).type = "gapfix" THEN data
    ELSE [data EXCEPT ![index + 1] = gapfix]

\* insertGapFix without its duplicate guard
insertGapFixUnguarded(data, index, gapfix) == Splice(data, index, gapfix)

insertGapFix(data, index, gapfix) ==
    IF At(data, index).type = "gapfix" THEN data ELSE Splice(data, index, gapfix)

\* gapIds.indexOf(v): the first 0-based position of v, or -1
RECURSIVE IndexOfFrom(_, _, _)
IndexOfFrom(seq, v, k) ==
    IF k > Len(seq) THEN 0 - 1
    ELSE IF seq[k] = v THEN k - 1
    ELSE IndexOfFrom(seq, v, k + 1)
\* gapIds.indexOf that never finds the index (as when gapIds is not filled)
IndexOfNothing(seq, v) == 0 - 1

IndexOf(seq, v) == IndexOfFrom(seq, v, 1)

\* the test of the scan pass with !== for ===
IsGapPointInverted(p) == p.y # Null

\* the test of the scan pass: data[iData].y === null
IsGapPoint(p) == p.y = Null

\* the inner loop of the scan pass over one series, from iData on; st is
\* [data, gaps, gapIds]
RECURSIVE ScanFrom(_, _, _, _)
ScanFrom(seriesId, st, iData, lenData) ==
    IF iData >= lenData THEN st
    ELSE IF IsGapPoint(At(st.data, iData))
    THEN LET tagged == [st.data EXCEPT ![iData + 1].type = "gap"]
             gapIndex == IndexOf(st.gapIds, iData)
             st2 == IF gapIndex = 0 - 1
                    THEN [data |-> tagged,
                          gapIds |-> Append(st.gapIds, iData),
                          gaps |-> Append(st.gaps,
                                     [ids |-> <<seriesId>>, index |-> iData,
                                      x |-> At(st.data, iData).x,
                                      y |-> At(st.data, iData).y])]
                    ELSE [data |-> tagged,
                          gapIds |-> st.gapIds,
                          gaps |-> [st.gaps EXCEPT ![gapIndex + 1].ids =
                                       Append(@, seriesId)]]
         IN ScanFrom(seriesId, st2, iData + 1, lenData)
    ELSE ScanFrom(seriesId, st, iData + 1, lenData)

\* sortByIndex(a, b): -1, 0 or 1
sortByIndex(a, b) ==
    IF a.index < b.index THEN 0 - 1 ELSE IF a.index > b.index THEN 1 ELSE 0

\* gaps.sort(sortByIndex): insertion of each record into a sorted prefix
\* (the indices of the gap records are pairwise different, so every sort
\* gives this order)
RECURSIVE InsertSorted(_, _)
InsertSorted(sorted, g) ==
    IF sorted = <<>> THEN <<g>>
    ELSE IF sortByIndex(g, Head(sorted)) < 0 THEN <<g>> \o sorted
    ELSE <<Head(sorted)>> \o InsertSorted(Tail(sorted), g)
RECURSIVE Sort(_)
Sort(gs) ==
    IF gs = <<>> THEN <<>>
    ELSE InsertSorted(Sort(SubSeq(gs, 1, Len(gs) - 1)), gs[Len(gs)])
Reverse(s) == [k \in 1..Len(s) |-> s[Len(s) + 1 - k]]
\* the sort of the gaps without its .reverse(): ascending
SortGapsAscending(gs) == Sort(gs)

\* gaps.sort(sortByIndex).reverse()
SortGapsDescending(gs) == Reverse(Sort(gs))

\* the body of the inner loop of the rewrite pass with every fix point
\* taking the y of the gap record (null) instead of the series' own value
FixGapNullValues(data, gap) ==
    LET prev == getPrev(data, gap.index) IN
    IF prev.kind = "throw" THEN [threw |-> TRUE, data |-> data]
    ELSE
    LET next == getNext(data, gap.index) IN
    IF next.kind = "throw" \/ ~Defined(data, gap.index)
    THEN [threw |-> TRUE, data |-> data]
    ELSE
    LET d1 == IF next.kind = "point"
              THEN insertGapFix(data, gap.index + 1,
                     createGapFixPoint(next.x - fixTimeDistance, gap.y))
              ELSE data
        d2 == IF prev.kind = "point"
              THEN insertGapFix(d1, gap.index,
                     createGapFixPoint(prev.x + fixTimeDistance, gap.y))
              ELSE d1
    IN [threw |-> FALSE, data |-> d2]

\* the body of the inner loop of the rewrite pass: one gap in one series
FixGap(data, gap) ==
    LET prev == getPrev(data, gap.index) IN
    IF prev.kind = "throw" THEN [threw |-> TRUE, data |-> data]
    ELSE
    LET next == getNext(data, gap.index) IN
    IF next.kind = "throw" \/ ~Defined(data, gap.index)   \* data[gap.index].y
    THEN [threw |-> TRUE, data |-> data]
    ELSE
    LET isGap == At(data, gap.index).y = Null
        d1 == IF next.kind = "point"
              THEN insertGapFix(data, gap.index + 1,
                     createGapFixPoint(next.x - fixTimeDistance,
                                       IF isGap THEN Null ELSE next.y))
              ELSE data
        d2 == IF prev.kind = "point"
              THEN insertGapFix(d1, gap.index,
                     createGapFixPoint(prev.x + fixTimeDistance,
                                       IF isGap THEN Null ELSE prev.y))
              ELSE d1
    IN [threw |-> FALSE, data |-> d2]

(* ---------------------------- inputs ----------------------------------- *)
\* a non-null y, different for every series and index
YVal(s, i) == 100 * s + i + 1

MkPoint(x, y) == [x |-> x, y |-> y, type |-> "none", marker |-> "unset"]

\* n aligned series of len points on the grid 0, step, 2*step, ...;
\* nulls[s] is the set of indices at which series s is null
MkInput(n, len, dx, nulls) ==
    [s \in 1..n |->
        [id |-> NoId,
         data |-> [k \in 1..len |->
                     MkPoint((k - 1) * dx,
                             IF (k - 1) \in nulls[s] THEN Null
                             ELSE YVal(s, k - 1))]]]

(* ---------------------------- state ------------------------------------ *)
VARIABLES
    input,      \* the series list as passed to the first call
    step,       \* the spacing of the x grid of input
    series,     \* the series list (mutated in place)
    gaps,       \* var gaps
    gapIds,     \* var gapIds
    iSeries,    \* loop variable of both passes
    iGap,       \* loop variable of the rewrite pass
    pc,         \* "scan", "sort", "rewrite", "return", "done", "error"
    call,       \* number of the running (or last) call
    firstOut    \* the series list as the first call returned it

vars == <<input, step, series, gaps, gapIds, iSeries, iGap, pc, call, firstOut>>

Init ==
    \E n \in 0..MaxSeries, len \in 0..MaxLen, st \in XSteps :
      \E nulls \in [1..n -> SUBSET (0..(len - 1))] :
        /\ input = MkInput(n, len, st, nulls)
        /\ step = st
        /\ series = input
        /\ gaps = <<>>
        /\ gapIds = <<>>
        /\ iSeries = 0
        /\ iGap = 0
        /\ pc = "scan"
        /\ call = 1
        /\ firstOut = <<>>

(* ---------------------------- steps of fixSeries ----------------------- *)
\* one iteration of the first loop over the series
ScanSeries ==
    /\ pc = "scan"
    /\ iSeries < Len(series)
    /\ LET s == series[iSeries + 1]
           id == IF s.id # NoId THEN s.id ELSE iSeries
           r == ScanFrom(id, [data |-> s.data, gaps |-> gaps, gapIds |-> gapIds],
                         0, Len(s.data))
       IN /\ series' = [series EXCEPT ![iSeries + 1] = [id |-> id, data |-> r.data]]
          /\ gaps' = r.gaps
          /\ gapIds' = r.gapIds
    /\ iSeries' = iSeries + 1
    /\ UNCHANGED <<input, step, iGap, pc, call, firstOut>>

\* gaps = gaps.sort(sortByIndex).reverse(), and the start of the second loop
SortGaps ==
    /\ pc = "scan"
    /\ iSeries >= Len(series)
    /\ gaps' = SortGapsDescending(gaps)
    /\ iSeries' = 0
    /\ iGap' = 0
    /\ pc' = "rewrite"
    /\ UNCHANGED <<input, step, series, gapIds, call, firstOut>>

\* one iteration of the loop over the gaps, in series iSeries
RewriteGap ==
    /\ pc = "rewrite"
    /\ iSeries < Len(series)
    /\ iGap < Len(gaps)
    /\ LET r == FixGap(series[iSeries + 1].data, gaps[iGap + 1]) IN
       \/ /\ r.threw
          /\ pc' = "error"
          /\ UNCHANGED <<series, iGap>>
       \/ /\ ~r.threw
          /\ series' = [series EXCEPT ![iSeries + 1].data = r.data]
          /\ iGap' = iGap + 1
          /\ pc' = pc
    /\ UNCHANGED <<input, step, gaps, gapIds, iSeries, call, firstOut>>

\* the loop over the gaps is over for series iSeries
NextSeries ==
    /\ pc = "rewrite"
    /\ iSeries < Len(series)
    /\ iGap >= Len(gaps)
    /\ iSeries' = iSeries + 1
    /\ iGap' = 0
    /\ UNCHANGED <<input, step, series, gaps, gapIds, pc, call, firstOut>>

\* return series
Return ==
    /\ pc = "rewrite"
    /\ iSeries >= Len(series)
    /\ pc' = "done"
    /\ firstOut' = IF call = 1 THEN series ELSE firstOut
    /\ UNCHANGED <<input, step, series, gaps, gapIds, iSeries, iGap, call>>

\* the caller passes the returned list to fixSeries again
CallAgain ==
    /\ pc = "done"
    /\ call < MaxCalls
    /\ call' = call + 1
    /\ gaps' = <<>>
    /\ gapIds' = <<>>
    /\ iSeries' = 0
    /\ iGap' = 0
    /\ pc' = "scan"
    /\ UNCHANGED <<input, step, series, firstOut>>

Next == ScanSeries \/ SortGaps \/ RewriteGap \/ NextSeries \/ Return

Spec == Init /\ [][Next]_vars

NextTwice == Next \/ CallAgain

SpecTwice == Init /\ [][NextTwice]_vars

(* ---------------------------- vocabulary of the properties ------------- *)
\* number of points of every input series (the inputs are aligned)
InLen == IF Len(input) = 0 THEN 0 ELSE Len(input[1].data)
\* series s of the input is null at index i
NullAt(s, i) == input[s].data[i + 1].y = Null
\* some series of the input is null at index i
GapIndex(i) == \E s \in 1..Len(input) : NullAt(s, i)
\* the x and y of the points of an array
XY(data) == [k \in 1..Len(data) |-> <<data[k].x, data[k].y>>]
\* the x, y and type of the points of an array
XYT(data) == [k \in 1..Len(data) |-> <<data[k].x, data[k].y, data[k].type>>]
IsFix(p) == p.type = "gapfix"
NotFix(p) == p.type # "gapfix"
\* an array without its points tagged 'gapfix'
StripFix(data) == SelectSeq(data, NotFix)
NumFix(data) == Len(SelectSeq(data, IsFix))
Increasing(data) == \A k \in 1..(Len(data) - 1) : data[k].x < data[k + 1].x
\* position (1-based) in data of the point that was at index i of the input;
\* i = -1 is the position before the array, i = number of originals the
\* position behind it
OrigPos(data, i) ==
    IF i < 0 THEN 0
    ELSE IF i >= Len(StripFix(data)) THEN Len(data) + 1
    ELSE CHOOSE k \in 1..Len(data) :
           /\ NotFix(data[k])
           /\ Cardinality({j \in 1..(k - 1) : NotFix(data[j])}) = i
\* number of fix points between the originals i-1 and i of data
FixBefore(data, i) == OrigPos(data, i) - OrigPos(data, i - 1) - 1

(* ---------------------------- C1 --------------------------------------- *)
\* C1: at every moment of a call of fixSeries on an aligned input, and so
\* when it returns, every series without its points tagged 'gapfix' is the
\* input sequence of that series: same number of points, same order, same x
\* and y at every position.
C1_OriginalsKept ==
    \A s \in 1..Len(series) :
        XY(StripFix(series[s].data)) = XY(input[s].data)

\* a call has returned and has inserted a null and a non-null fix point
C1_Witness ==
    /\ pc = "done"
    /\ \E s \in 1..Len(series) : \E k \in 1..Len(series[s].data) :
          IsFix(series[s].data[k]) /\ series[s].data[k].y = Null
    /\ \E s \in 1..Len(series) : \E k \in 1..Len(series[s].data) :
          IsFix(series[s].data[k]) /\ series[s].data[k].y # Null

(* ---------------------------- C2 --------------------------------------- *)
\* C2: when the spacing of the x grid is larger than fixTimeDistance, the
\* x values of every series are strictly increasing at every moment of the
\* call, and so when it returns, whatever the placement of the gaps.
C2_StrictlyIncreasing ==
    step > fixTimeDistance =>
        \A s \in 1..Len(series) : Increasing(series[s].data)

\* a call has returned on a grid narrower than two fix distances where two
\* series have their gaps at adjacent indices, a third index apart from both
C2_Witness ==
    /\ pc = "done"
    /\ step > fixTimeDistance /\ step < 2 * fixTimeDistance
    /\ Len(input) = 2
    /\ \E g \in 1..(InLen - 3) :
          /\ NullAt(1, g) /\ ~NullAt(2, g)
          /\ NullAt(2, g + 1) /\ ~NullAt(1, g + 1)
    /\ \A s \in 1..Len(series) : NumFix(series[s].data) >= 3

(* ---------------------------- C3 --------------------------------------- *)
\* C3: a second call of fixSeries on the list the first call returned
\* returns the same point sequences (same length, same x, y and type at
\* every position of every series) as the first call.
C3_Idempotent ==
    (pc = "done" /\ call = 2) =>
        \A s \in 1..Len(series) :
            XYT(series[s].data) = XYT(firstOut[s].data)

(* ---------------------------- C4 --------------------------------------- *)
\* g is the only index at which a series of the input is null, and it has a
\* point on both sides
SingleInteriorGap(g) ==
    /\ g >= 1 /\ g <= InLen - 2
    /\ GapIndex(g)
    /\ \A i \in 0..(InLen - 1) : i # g => ~GapIndex(i)

\* what the claim expects of series s for the single interior gap g
C4_Expected(s, g) ==
    LET d == input[s].data
        own == NullAt(s, g)
    IN SubSeq(d, 1, g)
       \o << [x |-> d[g].x + fixTimeDistance,
              y |-> IF own THEN Null ELSE d[g].y,
              type |-> "gapfix", marker |-> "disabled"],
             [d[g + 1] EXCEPT !.type = IF own THEN "gap" ELSE "none"],
             [x |-> d[g + 2].x - fixTimeDistance,
              y |-> IF own THEN Null ELSE d[g + 2].y,
              type |-> "gapfix", marker |-> "disabled"] >>
       \o SubSeq(d, g + 2, Len(d))

\* C4: when exactly one interior index g is null in some series, the call
\* does not throw and returns every series two points longer: a fix point
\* at x[g-1] + fixTimeDistance right before point g and one at
\* x[g+1] - fixTimeDistance right behind it; both have y null in a series
\* that is null at g, and the series' own y[g-1] and y[g+1] otherwise.
C4_SingleGap ==
    \A g \in 1..(InLen - 2) :
        SingleInteriorGap(g) =>
            /\ pc # "error"
            /\ pc = "done" =>
                 \A s \in 1..Len(series) : series[s].data = C4_Expected(s, g)

\* a call has returned for a single interior gap that one series has and
\* another one has not
C4_Witness ==
    /\ pc = "done"
    /\ \E g \in 1..(InLen - 2) :
          /\ SingleInteriorGap(g)
          /\ \E s \in 1..Len(input) : NullAt(s, g)
          /\ \E s \in 1..Len(input) : ~NullAt(s, g)
          /\ \A s \in 1..Len(series) : Len(series[s].data) = InLen + 2

(* ---------------------------- C5 --------------------------------------- *)
\* C5: when a series is null at index 0, the call does not throw, and it
\* returns every series without a fix point before point 0 and, when no
\* series is null at index 1, with one fix point behind point 0.
C5_GapAtStart ==
    (InLen >= 1 /\ GapIndex(0)) =>
        /\ pc # "error"
        /\ pc = "done" =>
             \A s \in 1..Len(series) :
                 /\ FixBefore(series[s].data, 0) = 0
                 /\ (InLen >= 2 /\ ~GapIndex(1)) =>
                        FixBefore(series[s].data, 1) = 1

(* ---------------------------- C6 --------------------------------------- *)
\* g..h is a run of two or more adjacent gap indices with points that no
\* series has null on both sides
GapRun(g, h) ==
    /\ g >= 1 /\ g < h /\ h <= InLen - 2
    /\ \A i \in g..h : GapIndex(i)
    /\ ~GapIndex(g - 1) /\ ~GapIndex(h + 1)

\* C6: for a run g..h of adjacent gap indices, every series is returned with
\* exactly one fix point before point g, exactly one behind point h, and none
\* between the points of the run.
C6_RunOfGaps ==
    pc = "done" =>
        \A g \in 1..(InLen - 2), h \in 1..(InLen - 2) :
            GapRun(g, h) =>
                \A s \in 1..Len(series) :
                    /\ FixBefore(series[s].data, g) = 1
                    /\ FixBefore(series[s].data, h + 1) = 1
                    /\ \A k \in (g + 1)..h : FixBefore(series[s].data, k) = 0

(* ---------------------------- C7 --------------------------------------- *)
\* C7: when a call ends in an error, every series has the points it had
\* before the call and no fix point.
C7_ErrorLeavesInput ==
    pc = "error" =>
        \A s \in 1..Len(series) :
            /\ NumFix(series[s].data) = 0
            /\ XY(series[s].data) = XY(input[s].data)

(* ---------------------------- C8 --------------------------------------- *)
\* the last index is a gap index and no series is null right before it
GapAtEnd == InLen >= 2 /\ GapIndex(InLen - 1) /\ ~GapIndex(InLen - 2)

\* what the claim expects of a returned series for a gap at the last index:
\* one fix point, at x[last-1] + fixTimeDistance, right before the last point,
\* which stays the last point
C8_Fixed(s) ==
    LET d == series[s].data
        n == Len(d)
    IN /\ n >= 3
       /\ NotFix(d[n])
       /\ IsFix(d[n - 1])
       /\ NotFix(d[n - 2])
       /\ d[n - 1].x = input[s].data[InLen - 1].x + fixTimeDistance

\* C8: when a series is null at its last index and no series is null right
\* before it, the call does not throw and returns every series with that fix.
C8_GapAtEnd ==
    GapAtEnd =>
        /\ pc # "error"
        /\ pc = "done" => \A s \in 1..Len(series) : C8_Fixed(s)

\* the part of C8 that does not depend on the call completing: once it has
\* returned, every series has that fix
C8_WhenReturned ==
    (GapAtEnd /\ pc = "done") => \A s \in 1..Len(series) : C8_Fixed(s)

(* ---------------------------- C9 --------------------------------------- *)
NoNulls == \A s \in 1..Len(input) : \A i \in 0..(InLen - 1) : ~NullAt(s, i)

\* C9: on the empty list, and on a list without any null, the call does not
\* throw and the point sequences stay, up to its return, what they were: no
\* gap is recorded and no point is inserted, changed or tagged.
C9_NothingToFix ==
    NoNulls =>
        /\ pc # "error"
        /\ gaps = <<>>
        /\ Len(series) = Len(input)
        /\ \A s \in 1..Len(series) : series[s].data = input[s].data

\* a call has returned on a list of two series of several points, none null
C9_Witness ==
    /\ pc = "done"
    /\ NoNulls
    /\ Len(input) = 2
    /\ InLen >= 3

(* ---------------------------- C10 -------------------------------------- *)
\* C10: when the spacing of the x grid is larger than fixTimeDistance, the
\* returned series have the same length and, at every position, the same x
\* and the same kind of point (fix point or not).
C10_StillAligned ==
    (pc = "done" /\ step > fixTimeDistance) =>
        \A s \in 1..Len(series), t \in 1..Len(series) :
            /\ Len(series[s].data) = Len(series[t].data)
            /\ \A k \in 1..Len(series[s].data) :
                  /\ series[s].data[k].x = series[t].data[k].x
                  /\ IsFix(series[s].data[k]) = IsFix(series[t].data[k])

(* ---------------------------- C11 -------------------------------------- *)
\* the rewrite pass is about to process gap iGap in series iSeries
AtGap == pc = "rewrite" /\ iSeries < Len(series) /\ iGap < Len(gaps)

\* C11: during the rewrite pass of a first call the gap records are in
\* strictly descending order of their index, and when the gap with index g
\* is about to be processed in a series, position g of that series holds the
\* point that the input had at index g (no fix point, same x and y).
C11_DescendingAndUnshifted ==
    pc = "rewrite" =>
        /\ \A k \in 1..(Len(gaps) - 1) : gaps[k].index > gaps[k + 1].index
        /\ AtGap =>
             LET d == series[iSeries + 1].data
                 g == gaps[iGap + 1].index
             IN /\ Defined(d, g)
                /\ NotFix(At(d, g))
                /\ At(d, g).x = At(input[iSeries + 1].data, g).x
                /\ At(d, g).y = At(input[iSeries + 1].data, g).y

\* a later gap of the second series is about to be processed after fix
\* points of an earlier gap have been inserted into that series
C11_Witness ==
    /\ AtGap
    /\ iSeries = 1
    /\ iGap >= 1
    /\ Len(series[iSeries + 1].data) > InLen
    /\ gaps[iGap + 1].index >= 1

(* ---------------------------- C12 -------------------------------------- *)
\* the scan pass of the first call is over and the rewrite pass has not
\* changed anything yet
ScanOver ==
    /\ call = 1
    /\ \/ pc = "scan" /\ iSeries >= Len(series)
       \/ pc = "rewrite" /\ iSeries = 0 /\ iGap = 0

\* the elements of a sequence, and whether they are pairwise different
Elems(q) == {q[k] : k \in 1..Len(q)}
NoRepeat(q) == \A j \in 1..Len(q), k \in 1..Len(q) : q[j] = q[k] => j = k

\* C12: at the end of the scan pass there is exactly one gap record for every
\* index at which some series is null and none for another index; its ids are
\* the ids of the series that are null at that index, each once, its x is the
\* x at that index; and exactly the null points of the series are tagged 'gap'.
C12_GapRecords ==
    ScanOver =>
        /\ NoRepeat([k \in 1..Len(gaps) |-> gaps[k].index])
        /\ {gaps[k].index : k \in 1..Len(gaps)}
              = {i \in 0..(InLen - 1) : GapIndex(i)}
        /\ \A k \in 1..Len(gaps) :
              /\ NoRepeat(gaps[k].ids)
              /\ Elems(gaps[k].ids)
                    = {series[s].id : s \in {t \in 1..Len(input) :
                                               NullAt(t, gaps[k].index)}}
              /\ gaps[k].x = At(input[1].data, gaps[k].index).x
        /\ \A s \in 1..Len(series) :
              /\ series[s].id = s - 1
              /\ Len(series[s].data) = InLen
              /\ \A i \in 0..(InLen - 1) :
                    (At(series[s].data, i).type = "gap") <=> NullAt(s, i)

\* the scan pass is over for two series that are both null at one index,
\* with a second index at which only one of them is null
C12_Witness ==
    /\ ScanOver
    /\ Len(input) = 2
    /\ \E i \in 0..(InLen - 1), j \in 0..(InLen - 1) :
          /\ i # j
          /\ NullAt(1, i) /\ NullAt(2, i)
          /\ NullAt(2, j) /\ ~NullAt(1, j)
    /\ \E k \in 1..Len(gaps) : Len(gaps[k].ids) = 2

====
